---- MODULE Spec2Model ----
(***************************************************************************)
(* Model of the voice-controlled text editor in src/app.py.                *)
(*                                                                         *)
(* The application is a Streamlit script: every user interaction reruns    *)
(* the whole script top to bottom with exactly one widget reporting the    *)
(* interaction (one button returns True, or the text area returns the text *)
(* the user typed).  One action of the model is one rerun of the script.   *)
(*                                                                         *)
(* Text is a sequence of one-character strings, so that lower(), strip(),  *)
(* the substring test and replace() are computed as Python computes them.  *)
(***************************************************************************)
EXTENDS Integers, Sequences, FiniteSets, TLC

VARIABLES
    text,           \* st.session_state.text
    history,        \* st.session_state.history
    current_index,  \* st.session_state.current_index (0-based, -1 = none)
    file,           \* text_editor_output.txt: [exists, data]
    linesep,        \* os.linesep of the platform the script runs on
    saved,          \* the text handed to the latest save_text_to_file call
    event,          \* the interaction that triggered the latest rerun
    pre             \* the session state when the latest rerun started

vars == <<text, history, current_index, file, linesep, saved, event, pre>>

\* An interaction: the widget that reports it, how its external call ended,
\* and the text it carries
NoValue == <<>>

Ev(b, o, v) == [button |-> b, outcome |-> o, value |-> v]

----------------------------------------------------------------------------
(* Bounds of the model. *)

MaxTextLen == 2
MaxHist == 2
MaxWords == 3

----------------------------------------------------------------------------
(* Characters and Python string primitives. *)

LF == "\n"
CR == "\r"
SP == " "

Whitespace == {SP, LF, CR}

LowerChar(c) ==
    CASE c = "A" -> "a"
      [] c = "B" -> "b"
      [] c = "D" -> "d"
      [] c = "H" -> "h"
      [] c = "I" -> "i"
      [] OTHER -> c

\* str.lower()
lower(s) == [i \in 1..Len(s) |-> LowerChar(s[i])]

RECURSIVE lstrip(_)
lstrip(s) ==
    IF s # <<>> /\ Head(s) \in Whitespace THEN lstrip(Tail(s)) ELSE s

RECURSIVE rstrip(_)
rstrip(s) ==
    IF s # <<>> /\ s[Len(s)] \in Whitespace
    THEN rstrip(SubSeq(s, 1, Len(s) - 1))
    ELSE s

\* str.strip()
strip(s) == rstrip(lstrip(s))

\* sub in s
contains(sub, s) ==
    \E i \in 1..(Len(s) - Len(sub) + 1) : SubSeq(s, i, i + Len(sub) - 1) = sub

\* s.replace(old, new): left to right, non-overlapping occurrences
RECURSIVE replace(_, _, _)
replace(s, old, new) ==
    IF Len(s) < Len(old) THEN s
    ELSE IF SubSeq(s, 1, Len(old)) = old
         THEN new \o replace(SubSeq(s, Len(old) + 1, Len(s)), old, new)
         ELSE <<Head(s)>> \o replace(Tail(s), old, new)

----------------------------------------------------------------------------
(* Keywords and literals of process_command. *)

kwAdd    == <<"a", "d", "d">>
kwDelete == <<"d", "e", "l", "e", "t", "e">>
kwHtml   == <<"h", "t", "m", "l">>
kwPhp    == <<"p", "h", "p">>
kwBold   == <<"b", "o", "l", "d">>
kwItalic == <<"i", "t", "a", "l", "i", "c">>

HtmlOpen  == <<"<", "p", ">">>
HtmlClose == <<"<", "/", "p", ">">>
PhpOpen   == <<"<", "?", "p", "h", "p", " ", "e", "c", "h", "o", " ", "'">>
PhpClose  == <<"'", ";", " ", "?", ">">>
BoldMark  == <<"*", "*">>
ItalicMark == <<"*">>

\* process_command with the bold branch tested first
process_command_bold_first(utterance) ==
    LET command == strip(lower(utterance)) IN
    IF contains(kwBold, command)
        THEN BoldMark \o strip(replace(command, kwBold, <<>>)) \o BoldMark
    ELSE IF contains(kwAdd, command) THEN strip(replace(command, kwAdd, <<>>))
    ELSE IF contains(kwDelete, command) THEN <<>>
    ELSE IF contains(kwHtml, command)
        THEN HtmlOpen \o strip(replace(command, kwHtml, <<>>)) \o HtmlClose
    ELSE IF contains(kwPhp, command)
        THEN PhpOpen \o strip(replace(command, kwPhp, <<>>)) \o PhpClose
    ELSE IF contains(kwItalic, command)
        THEN ItalicMark \o strip(replace(command, kwItalic, <<>>)) \o ItalicMark
    ELSE command

\* process_command
process_command(utterance) ==
    LET command == strip(lower(utterance)) IN
    IF contains(kwAdd, command) THEN strip(replace(command, kwAdd, <<>>))
    ELSE IF contains(kwDelete, command) THEN <<>>
    ELSE IF contains(kwHtml, command)
        THEN HtmlOpen \o strip(replace(command, kwHtml, <<>>)) \o HtmlClose
    ELSE IF contains(kwPhp, command)
        THEN PhpOpen \o strip(replace(command, kwPhp, <<>>)) \o PhpClose
    ELSE IF contains(kwBold, command)
        THEN BoldMark \o strip(replace(command, kwBold, <<>>)) \o BoldMark
    ELSE IF contains(kwItalic, command)
        THEN ItalicMark \o strip(replace(command, kwItalic, <<>>)) \o ItalicMark
    ELSE command

\* recognize_speech_from_mic: the recognized text, or "" on either failure
recognize_speech_from_mic(outcome, utterance) ==
    IF outcome = "ok" THEN utterance ELSE <<>>

\* translate_text: the translation, or the text itself when the call raises
translate_text(t, outcome, translation) ==
    IF outcome = "ok" THEN translation ELSE t

----------------------------------------------------------------------------
(* File I/O: text-mode write and read of Python's open().                  *)

\* f.write(text) in mode 'w': every "\n" is written as os.linesep
save_text_to_file(t, sep) == [data |-> replace(t, <<LF>>, sep), exists |-> TRUE]

\* a read that leaves the line ends as written
load_text_from_file_raw(f) == f.data

\* f.read() in mode 'r' (universal newlines): "\r\n" and "\r" are read as "\n"
load_text_from_file(f) == replace(replace(f.data, <<CR, LF>>, <<LF>>), <<CR>>, <<LF>>)

----------------------------------------------------------------------------
(* The session and its handlers.  A session is the record                  *)
(* [text, history, current_index]; history positions are 0-based in the    *)
(* code, so history[current_index] of the code is s.history[idx + 1] here. *)

Session == [text |-> text, history |-> history, current_index |-> current_index]

InitSession == [text |-> <<>>, history |-> <<>>, current_index |-> -1]

\* save_to_history without the slice that drops the snapshots after the pointer
save_to_history_no_truncate(s) ==
    [s EXCEPT !.history = Append(s.history, s.text),
              !.current_index = @ + 1]

\* save_to_history without the increment of current_index
save_to_history_no_increment(s) ==
    [s EXCEPT !.history = Append(SubSeq(s.history, 1, s.current_index + 1), s.text)]

\* save_to_history
save_to_history(s) ==
    [s EXCEPT !.history = Append(SubSeq(s.history, 1, s.current_index + 1), s.text),
              !.current_index = @ + 1]

\* the dictation handler without the "if result:" test
StartDictationNoGuard(s, ev) ==
    LET result == recognize_speech_from_mic(ev.outcome, ev.value) IN
    save_to_history([s EXCEPT !.text = @ \o process_command(result)])

\* "Start Dictation" button
StartDictation(s, ev) ==
    LET result == recognize_speech_from_mic(ev.outcome, ev.value) IN
    IF result # <<>>
    THEN save_to_history([s EXCEPT !.text = @ \o process_command(result)])
    ELSE s

\* a clear that forgets to reset current_index
ClearTextKeepIndex(s) == [s EXCEPT !.text = <<>>, !.history = <<>>]

\* "Clear Text" button
ClearText(s) == [text |-> <<>>, history |-> <<>>, current_index |-> -1]

\* "Undo" button
Undo(s) ==
    IF s.current_index > 0
    THEN [s EXCEPT !.current_index = @ - 1, !.text = s.history[s.current_index]]
    ELSE s

\* "Redo" button
Redo(s) ==
    IF s.current_index < Len(s.history) - 1
    THEN [s EXCEPT !.current_index = @ + 1, !.text = s.history[s.current_index + 2]]
    ELSE s

\* "Load from File" button
LoadFromFile(s, f) ==
    IF f.exists THEN [s EXCEPT !.text = load_text_from_file(f)] ELSE s

\* st.text_area(value=st.session_state.text): the typed text on the rerun the
\* user's edit triggers, the value it is given on every other rerun
text_area(value, ev) == IF ev.button = "edit" THEN ev.value ELSE value

\* if st.session_state.text != text_area: ... save_to_history()
TextAreaCommit(s, widget) ==
    IF s.text # widget THEN save_to_history([s EXCEPT !.text = widget]) ELSE s

\* The sidebar of one rerun: the handler of the one button that is pressed
Sidebar(s, ev, f) ==
    CASE ev.button = "dictate" -> StartDictation(s, ev)
      [] ev.button = "clear" -> ClearText(s)
      [] ev.button = "undo" -> Undo(s)
      [] ev.button = "redo" -> Redo(s)
      [] ev.button = "load" -> LoadFromFile(s, f)
      [] OTHER -> s

\* The editor of one rerun: the text area and the commit of its value
Editor(s, ev) == TextAreaCommit(s, text_area(s.text, ev))

\* One rerun of the script on the session: sidebar, then the editor
Script(s, ev, f) == Editor(Sidebar(s, ev, f), ev)

\* The file after one rerun: only "Save to File" writes it
FileAfter(s, ev, f, sep) ==
    IF ev.button = "save" THEN save_text_to_file(s.text, sep) ELSE f

----------------------------------------------------------------------------
(* Inputs. *)

\* What the recognizer may return in the editor session
Utterances ==
    { <<"A">>,
      <<"D", "e", "l", "e", "t", "e">>,
      <<"A", "d", "d", " ", "a">> }

\* What the user may type into the text area (a browser's line break is "\n")
EditTexts ==
    { <<>>, <<LF>> }

Translations == { <<"h", "o", "l", "a">> }

LineSeps == { <<LF>>, <<CR, LF>> }

\* The words a dictated command is made of, and the commands of up to
\* MaxWords words joined by single spaces
Words == { kwAdd, kwDelete, kwHtml, kwPhp, kwBold, kwItalic, <<"h", "i">> }

RECURSIVE Phrases(_)
Phrases(n) ==
    IF n <= 1 THEN Words
    ELSE LET shorter == Phrases(n - 1) IN
         shorter \cup { p \o <<SP>> \o w : p \in shorter, w \in Words }

Commands == Phrases(MaxWords) \cup { <<SP>> \o kwBold \o <<SP, "H", "I", SP>> }

----------------------------------------------------------------------------
(* The state machine. *)

Init ==
    /\ text = <<>>
    /\ history = <<>>
    /\ current_index = -1
    /\ file = [data |-> <<>>, exists |-> FALSE]
    /\ linesep \in LineSeps
    /\ saved = <<>>
    /\ event = Ev("start", "-", NoValue)
    /\ pre = InitSession

\* The session s and the file a rerun on interaction ev ends with
Apply(s, ev) ==
    /\ text' = s.text
    /\ history' = s.history
    /\ current_index' = s.current_index
    /\ file' = FileAfter(Session, ev, file, linesep)
    /\ saved' = IF ev.button = "save" THEN text ELSE saved
    /\ event' = ev
    /\ pre' = Session
    /\ UNCHANGED linesep

\* The bounds of the model: the text has at most MaxTextLen characters and
\* the history pointer stays below MaxHist
Bounded(s) == Len(s.text) <= MaxTextLen /\ s.current_index < MaxHist

\* One rerun of the script triggered by interaction ev, within the bounds
Rerun(ev) ==
    /\ Bounded(Script(Session, ev, file))
    /\ Apply(Script(Session, ev, file), ev)

Dictate == \E u \in Utterances : Rerun(Ev("dictate", "ok", u))

DictateFails ==
    \E o \in {"UnknownValueError", "RequestError"} : Rerun(Ev("dictate", o, NoValue))

Clear == Rerun(Ev("clear", "-", NoValue))

UndoClick == Rerun(Ev("undo", "-", NoValue))

RedoClick == Rerun(Ev("redo", "-", NoValue))

Save == Rerun(Ev("save", "-", NoValue))

Load == Rerun(Ev("load", IF file.exists THEN "ok" ELSE "FileNotFound", NoValue))

Edit == \E t \in EditTexts : Rerun(Ev("edit", "-", t))

\* "Translate" button: the value of event is the text shown as translation
Translate ==
    \/ /\ strip(text) # <<>>
       /\ \E o \in {"ok", "Exception"} : \E tr \in Translations :
              Rerun(Ev("translate", o, translate_text(text, o, tr)))
    \/ /\ strip(text) = <<>>
       /\ Rerun(Ev("translate", "TextEmpty", NoValue))

Next ==
    \/ Dictate
    \/ DictateFails
    \/ Clear
    \/ UndoClick
    \/ RedoClick
    \/ Save
    \/ Load
    \/ Edit
    \/ Translate

Spec == Init /\ [][Next]_vars

----------------------------------------------------------------------------
(* The command transform on its own: each behaviour dictates one command   *)
(* of Commands into the session as the script leaves it on the first run.  *)

DictateCommand ==
    /\ event.button = "start"
    /\ \E u \in Commands :
           Apply(Script(Session, Ev("dictate", "ok", u), file), Ev("dictate", "ok", u))

NextCmd == DictateCommand

SpecCmd == Init /\ [][NextCmd]_vars

----------------------------------------------------------------------------
(* Vocabulary of the properties. *)

Click(b) == Ev(b, "-", NoValue)

\* The latest rerun applied a recognized utterance
Dictated == event.button = "dictate" /\ event.outcome = "ok"

\* The latest rerun committed a text-area edit that changed the text
Typed == event.button = "edit" /\ event.value # pre.text

\* The latest rerun hit a failure of an external collaborator
Failed ==
    \/ event.button = "dictate" /\ event.outcome \in {"UnknownValueError", "RequestError"}
    \/ event.button = "load" /\ event.outcome = "FileNotFound"
    \/ event.button = "translate" /\ event.outcome = "Exception"

\* The normalised command of the latest dictation
Command == strip(lower(event.value))

\* The keywords in the priority order of the specification
Priority == <<kwAdd, kwDelete, kwHtml, kwPhp, kwBold, kwItalic>>

Matching(c) == { i \in 1..Len(Priority) : contains(Priority[i], c) }

Highest(c) == CHOOSE i \in Matching(c) : \A j \in Matching(c) : i <= j

Rest(c, k) == strip(replace(c, Priority[k], <<>>))

\* The transform of keyword number k applied on its own to command c
Alone(c, k) ==
    CASE k = 1 -> Rest(c, k)
      [] k = 2 -> <<>>
      [] k = 3 -> HtmlOpen \o Rest(c, k) \o HtmlClose
      [] k = 4 -> PhpOpen \o Rest(c, k) \o PhpClose
      [] k = 5 -> BoldMark \o Rest(c, k) \o BoldMark
      [] k = 6 -> ItalicMark \o Rest(c, k) \o ItalicMark

----------------------------------------------------------------------------
(* C1: whenever history is non-empty, the current text equals              *)
(* history[current_index].  Stated as claimed; "Load from File" replaces   *)
(* the text without recording a snapshot, so the code violates it.         *)
C1_TextIsCurrentSnapshot ==
    history # <<>> => text = history[current_index + 1]

(* C2: the history pointer satisfies 0 <= current_index < len(history)     *)
(* when history is non-empty and current_index = -1 when it is empty.      *)
C2_IndexInRange ==
    IF history = <<>>
    THEN current_index = -1
    ELSE 0 <= current_index /\ current_index < Len(history)

\* An undo has moved the pointer below the last snapshot
C2_Witness ==
    /\ event.button = "undo"
    /\ Len(history) >= 2
    /\ current_index = Len(history) - 2
    /\ pre.current_index = Len(history) - 1

(* C3: where undo is valid (current_index > 0), undo immediately followed  *)
(* by redo restores text, history and current_index.  Stated as claimed;   *)
(* after a load the text is not a snapshot and redo cannot bring it back.  *)
C3_UndoRedoRoundTrip ==
    current_index > 0 =>
        Script(Script(Session, Click("undo"), file), Click("redo"), file) = Session

(* C4: a new edit (dictation or text-area edit) discards every snapshot    *)
(* after the pre-edit current_index: history becomes the old prefix        *)
(* history[0..current_index] followed by the new text, current_index is    *)
(* the last position, and redo is a no-op.                                 *)
C4_EditDiscardsRedo ==
    (Dictated \/ Typed) =>
        /\ text = IF Dictated THEN pre.text \o process_command(event.value)
                              ELSE event.value
        /\ history = Append(SubSeq(pre.history, 1, pre.current_index + 1), text)
        /\ current_index = Len(history) - 1
        /\ Script(Session, Click("redo"), file) = Session

\* An edit was applied while snapshots after the pointer existed
C4_Witness ==
    /\ Dictated \/ Typed
    /\ pre.current_index < Len(pre.history) - 1
    /\ Len(history) = pre.current_index + 2

(* C5: an edit whose new text equals the current text is a no-op on        *)
(* history and current_index, on the text-area path and on the dictation   *)
(* path.  Stated as claimed; the dictation path appends a snapshot even    *)
(* when the processed command is empty.                                    *)
C5_UnchangedEditIsNoOp ==
    (event.button \in {"dictate", "edit"} /\ text = pre.text) =>
        /\ history = pre.history
        /\ current_index = pre.current_index

C7_DeleteClearsBuffer ==
    (Dictated /\ contains(kwDelete, Command) /\ ~contains(kwAdd, Command)) =>
        /\ process_command(event.value) = <<>>
        /\ text = <<>>

(* C8: process_command applies exactly one branch, that of the first       *)
(* keyword occurring in the utterance in the order add, delete, html, php, *)
(* bold, italic: the result is the one that keyword produces alone, and    *)
(* unless the branch is delete the lower-priority keywords of the          *)
(* utterance are still in the result, untransformed.                       *)
C8_FirstKeywordWins ==
    (Dictated /\ Matching(Command) # {}) =>
        LET k == Highest(Command) IN
        /\ text = pre.text \o Alone(Command, k)
        /\ k # 2 => \A j \in Matching(Command) :
                        j > k => contains(Priority[j], text)

\* "add bold hi" was dictated and gave "bold hi"
C8_Witness ==
    /\ Dictated
    /\ event.value = kwAdd \o <<SP>> \o kwBold \o <<SP, "h", "i">>
    /\ text = kwBold \o <<SP, "h", "i">>

(* C9: a failed speech recognition, a load of a missing file and a failed  *)
(* translation leave text, history and current_index as they were.         *)
C9_FailureChangesNothing ==
    Failed => Session = pre

\* Recognition failed in a session that has text and snapshots
C9_Witness ==
    /\ event.button = "dictate"
    /\ event.outcome = "RequestError"
    /\ text # <<>>
    /\ history # <<>>

====
